---- MODULE Spec2Model ----
(***************************************************************************)
(* Model of aag.py, the ASCII art generator: one run of the script         *)
(* (create_output_directory, AsciiArtConverter construction, convert,      *)
(* write_ascii_to_file, __exit__) as a state machine, with the pure stages *)
(* (resize arithmetic, pixel bucketing, row layout) as operators.          *)
(*                                                                         *)
(* Strings are sequences of one-character strings.  A value that may be    *)
(* Python's None is a record [none, val].                                  *)
(***************************************************************************)
EXTENDS Integers, Sequences, FiniteSets, TLC

(***************************************************************************)
(* Bounds of the model                                                     *)
(***************************************************************************)
\* original image widths and heights explored by the resize arithmetic
MaxDim == 10
\* original image heights explored by the whole run
MaxImageHeight == 3
\* greyscale image sizes explored by the mapper and the layout loop
MaxGreyWidth == 3
MaxGreyHeight == 3
\* flat strings explored by the layout loop alone
MaxStrLen == 3
MaxRowWidth == 3

(***************************************************************************)
(* Program constants                                                       *)
(***************************************************************************)
\* AsciiArtConverter.__init__, target_width: int = 100
DefaultTargetWidth == 100
\* __main__: AsciiArtConverter(cfg.image_path, target_width=120)
MainTargetWidth == 120
\* pixel // 25
BucketSize == 25
\* mode 'L' pixels are 8-bit: 0..255
PixelLevels == 256

\* class Chars: ASCII_CHARS
ASCII_CHARS == <<"@", "#", "$", "%", "?", "*", "+", ";", ":", ",", ".">>

None == [none |-> TRUE, val |-> <<>>]
Some(v) == [none |-> FALSE, val |-> v]

Min(a, b) == IF a < b THEN a ELSE b

RECURSIVE Pow2(_)
Pow2(n) == IF n = 0 THEN 1 ELSE 2 * Pow2(n - 1)

\* largest e with c * 2^e <= v   (v >= c >= 1)
RECURSIVE Log2Floor(_, _, _)
Log2Floor(c, v, e) == IF c * Pow2(e + 1) <= v THEN Log2Floor(c, v, e + 1) ELSE e

(***************************************************************************)
(* resize_image arithmetic.  target_height is a Python float; it is kept   *)
(* here as the exact fraction num/den of the quotient.                     *)
(*                                                                         *)
(* IntTimesPoint3(num, den) is int(x * .3) for the double x = num/den.     *)
(* The real product 3*num/(10*den) is at least 1/(10*den) away from every  *)
(* integer it does not hit, far more than the rounding error, so the       *)
(* double product truncates to the same integer.  When the real product    *)
(* is an integer n, binary64 matters: .3 is the double                     *)
(* 5404319552844595 / 2^54 = .3 - 1/(5 * 2^54), and x = fl(10n/3) is       *)
(* exact when 3 divides n, and otherwise is rounded up or down by a third  *)
(* of a unit in the last place, the direction set by (n mod 3) and the     *)
(* parity of the exponent u of x.  Rounded down, the product falls short   *)
(* of n by n/(3*2^53) + 2^u/(5*2^53), and it rounds to a double below n    *)
(* exactly when that exceeds half a unit in the last place of n, 2^(k-53): *)
(* 5n + 3*2^u > 15*2^k.  Then int() yields n - 1.                          *)
(***************************************************************************)
IntTimesPoint3(num, den) ==
    LET n == (3 * num) \div (10 * den)
        hit == (3 * num) % (10 * den) = 0
    IN  IF ~hit \/ n % 3 = 0 THEN n
        ELSE LET u == Log2Floor(3, 10 * n, 0)
                 k == Log2Floor(1, n, 0)
                 down == IF u % 2 = 0 THEN n % 3 = 1 ELSE n % 3 = 2
             IN  IF down /\ 5 * n + 3 * Pow2(u) > 15 * Pow2(k) THEN n - 1 ELSE n

\* a plausible slip: the height truncated before the 30% is taken
TargetHeightTruncatedFirst(target_width, w, h) ==
    LET t == (target_width * h) \div w
    IN  t - (3 * t) \div 10

\* lines 125-132: int(target_height) after
\*   target_height = target_width * h / w
\*   target_height = target_height - int(target_height * .3)
TargetHeight(target_width, w, h) ==
    LET num == target_width * h
        reduction == IntTimesPoint3(num, w)
        reduced == [num |-> num - reduction * w, den |-> w]
    IN  reduced.num \div reduced.den

(***************************************************************************)
(* convert_pixel_to_ascii                                                  *)
(***************************************************************************)
\* a plausible slip: eleven characters taken as eleven buckets of 256/11
RampIndexBy23(pixel) == pixel \div 23

\* the index of line 102, 0-based as in Python
RampIndex(pixel) == pixel \div BucketSize

\* the for loop of lines 101-102; None when an index raises IndexError
PixelsToAscii(pixels) ==
    IF \E k \in DOMAIN pixels : RampIndex(pixels[k]) + 1 \notin DOMAIN ASCII_CHARS
    THEN None
    ELSE Some([k \in DOMAIN pixels |-> ASCII_CHARS[RampIndex(pixels[k]) + 1]])

(***************************************************************************)
(* the layout loop of convert                                              *)
(***************************************************************************)
\* Python s[a:b] for 0 <= a <= b
Slice(s, a, b) == SubSeq(s, a + 1, Min(b, Len(s)))

RECURSIVE ReflowDroppingFrom(_, _, _, _)
\* a plausible slip: the slice ends one character early
ReflowDroppingFrom(s, width, i, acc) ==
    IF i >= Len(s) THEN acc
    ELSE ReflowDroppingFrom(s, width, i + width,
                            acc \o Slice(s, i, i + width - 1) \o <<"\n">>)

RECURSIVE ReflowFrom(_, _, _, _)
\* lines 78-79: for i in range(i, len(s), width): acc += s[i: i + width] + "\n"
ReflowFrom(s, width, i, acc) ==
    IF i >= Len(s) THEN acc
    ELSE ReflowFrom(s, width, i + width, acc \o Slice(s, i, i + width) \o <<"\n">>)

\* a plausible slip: the range starts at 1
ReflowSkippingFirst(s, width) == ReflowFrom(s, width, 1, <<>>)

\* lines 75-81
Reflow(s, width) == ReflowFrom(s, width, 0, <<>>)

(***************************************************************************)
(* paths: str.split('/'), '/'.join, os.path.exists, Path.mkdir             *)
(***************************************************************************)
RECURSIVE SplitFrom(_, _, _, _)
SplitFrom(s, i, cur, acc) ==
    IF i > Len(s) THEN Append(acc, cur)
    ELSE IF s[i] = "/" THEN SplitFrom(s, i + 1, <<>>, Append(acc, cur))
    ELSE SplitFrom(s, i + 1, Append(cur, s[i]), acc)

\* s.split('/')
Split(s) == SplitFrom(s, 1, <<>>, <<>>)

RECURSIVE Join(_)
\* '/'.join(parts)
Join(parts) ==
    IF Len(parts) = 0 THEN <<>>
    ELSE IF Len(parts) = 1 THEN parts[1]
    ELSE parts[1] \o <<"/">> \o Join(Tail(parts))

\* '.' in s
HasDot(s) == \E i \in DOMAIN s : s[i] = "."

IsRealComponent(c) == c # <<>> /\ c # <<".">>

\* the directory a relative path names, as its components below the
\* working directory (empty and '.' components name no step)
Resolve(s) == SelectSeq(Split(s), IsRealComponent)

Prefixes(p) == {SubSeq(p, 1, n) : n \in 0..Len(p)}

\* os.path.exists(s) for a directory path; exists('') is False
PathExists(s, dirs) == s # <<>> /\ Resolve(s) \in dirs

\* line 149
OutputFolder(output_path) ==
    IF HasDot(output_path)
    THEN LET parts == Split(output_path)
         IN  Join(SubSeq(parts, 1, Len(parts) - 1))
    ELSE output_path

(***************************************************************************)
(* Inputs of a run                                                         *)
(***************************************************************************)
\* values of --output-path: "o", "a/b", "./o", "o.d", "a/b.c"
OutputPaths ==
    { <<"o">>,
      <<"a", "/", "b">>,
      <<".", "/", "o">>,
      <<"o", ".", "d">>,
      <<"a", "/", "b", ".", "c">> }

\* what --image-path names: a decodable image, an image whose header reads
\* but whose pixel data is cut short, nothing, a file that is no image, a
\* directory, a file without read permission
ImageKinds == {"valid", "truncated", "missing", "undecodable", "directory", "unreadable"}

\* Image.open returns a handle for these
Opens(kind) == kind \in {"valid", "truncated"}

\* the exception Image.open raises for the others
OpenError(kind) ==
    CASE kind = "missing" -> "FileNotFoundError"
      [] kind = "undecodable" -> "UnidentifiedImageError"
      [] kind = "directory" -> "IsADirectoryError"
      [] kind = "unreadable" -> "PermissionError"
      [] OTHER -> "none"

\* what the output file system does to open(..., 'w') / f.write
WriteFaults == {"none", "denied", "full"}

\* widths of the original image in a whole run
ImageWidths == {60, 120, 240}

\* greyscale content: pixel k (0-based, row-major) is base + k * stride
Pixels(base, stride, n) == [k \in 1..n |-> (base + (k - 1) * stride) % PixelLevels]
PixelStrides == {0, 1, 25, 130}
RunBases == {0, 125, 255}
RunStrides == {0, 25}

NoFile == [exists |-> FALSE, content |-> <<>>]
StaleFile == [exists |-> TRUE, content |-> <<"o", "l", "d">>]

VARIABLES
    cfg_output_path,   \* cfg.output_path
    env,               \* the world outside the process: input file, permissions
    fs_dirs,           \* directories that exist, as component sequences below the cwd
    out_file,          \* the file <output_path>/<output_file_name>
    image,             \* self.image: state "none" (None), "open" or "closed", and its size
    close_calls,       \* number of self.image.close() calls made
    target_width,      \* self.target_width
    target_image,      \* convert: target_image
    greyscale_image,   \* convert: greyscale_image
    ascii_str,         \* convert: ascii_str
    ascii_string,      \* __main__: ascii_string, the value convert returned
    errors,            \* names of the functions that called log.error
    uncaught,          \* the exception propagating out of the script, or "none"
    exit_status,       \* process exit status, -1 while the process runs
    trace,             \* names of the functions entered so far, in order
    pc                 \* position of the script

vars == <<cfg_output_path, env, fs_dirs, out_file, image, close_calls, target_width,
          target_image, greyscale_image, ascii_str, ascii_string, errors, uncaught,
          exit_status, trace, pc>>

\* module level: nothing has run
Init ==
    /\ cfg_output_path \in OutputPaths
    /\ env \in [image_kind : ImageKinds, width : ImageWidths, height : 1..MaxImageHeight,
                mkdir_ok : BOOLEAN, write_fault : WriteFaults]
    /\ \E d \in 0..Len(Resolve(cfg_output_path)) :
          /\ fs_dirs = {SubSeq(Resolve(cfg_output_path), 1, n) : n \in 0..d}
          /\ out_file \in IF d = Len(Resolve(cfg_output_path))
                          THEN {NoFile, StaleFile} ELSE {NoFile}
    /\ image = [state |-> "none", width |-> 0, height |-> 0]
    /\ close_calls = 0
    /\ target_width = MainTargetWidth
    /\ target_image = None
    /\ greyscale_image = None
    /\ ascii_str = None
    /\ ascii_string = None
    /\ errors = {}
    /\ uncaught = "none"
    /\ exit_status = -1
    /\ trace = <<>>
    /\ pc = "start"

\* lines 147-156
create_output_directory ==
    /\ pc = "start"
    /\ LET output_folder == OutputFolder(cfg_output_path)
           missing == ~PathExists(output_folder, fs_dirs)
                      /\ Resolve(output_folder) \notin fs_dirs
       IN  IF missing /\ env.mkdir_ok
           THEN /\ fs_dirs' = fs_dirs \cup Prefixes(Resolve(output_folder))
                /\ errors' = errors
           ELSE IF missing
           THEN /\ errors' = errors \cup {"create_output_directory"}
                /\ fs_dirs' = fs_dirs
           ELSE UNCHANGED <<fs_dirs, errors>>
    /\ trace' = Append(trace, "create_output_directory")
    /\ pc' = "load"
    /\ UNCHANGED <<cfg_output_path, env, out_file, image, close_calls, target_width,
                   target_image, greyscale_image, ascii_str, ascii_string, uncaught,
                   exit_status>>

\* a plausible slip: the missing file is logged but the process is not ended
load_image_continues ==
    /\ pc = "load"
    /\ IF Opens(env.image_kind)
       THEN /\ image' = [state |-> "open", width |-> env.width, height |-> env.height]
            /\ pc' = "resize"
            /\ UNCHANGED <<errors, uncaught, exit_status>>
       ELSE IF env.image_kind = "missing"
       THEN /\ errors' = errors \cup {"load_image"}
            /\ pc' = "resize"
            /\ UNCHANGED <<image, uncaught, exit_status>>
       ELSE /\ uncaught' = OpenError(env.image_kind)
            /\ exit_status' = 1
            /\ pc' = "done"
            /\ UNCHANGED <<image, errors>>
    /\ trace' = Append(trace, "load_image")
    /\ UNCHANGED <<cfg_output_path, env, fs_dirs, out_file, close_calls, target_width,
                   target_image, greyscale_image, ascii_str, ascii_string>>

\* AsciiArtConverter(...) of line 164: __init__ (lines 42-49) calling
\* load_image (lines 137-144), then __enter__ (lines 54-57).
\* FileNotFoundError is logged and ends the process with sys.exit(1); any
\* other exception of Image.open leaves the script uncaught, which ends the
\* process with status 1 and a traceback.
load_image ==
    /\ pc = "load"
    /\ IF Opens(env.image_kind)
       THEN /\ image' = [state |-> "open", width |-> env.width, height |-> env.height]
            /\ pc' = "resize"
            /\ UNCHANGED <<errors, uncaught, exit_status>>
       ELSE IF env.image_kind = "missing"
       THEN /\ errors' = errors \cup {"load_image"}
            /\ exit_status' = 1
            /\ pc' = "done"
            /\ UNCHANGED <<image, uncaught>>
       ELSE /\ uncaught' = OpenError(env.image_kind)
            /\ exit_status' = 1
            /\ pc' = "done"
            /\ UNCHANGED <<image, errors>>
    /\ trace' = Append(trace, "load_image")
    /\ UNCHANGED <<cfg_output_path, env, fs_dirs, out_file, close_calls, target_width,
                   target_image, greyscale_image, ascii_str, ascii_string>>

\* the exceptions of lines 122-132: no image to read (AttributeError), pixel
\* data that cannot be decoded (OSError from Image.load), a zero width
\* (ZeroDivisionError), a requested size below 1 (ValueError from Image.resize)
ResizeRaises ==
    \/ image.state # "open"
    \/ env.image_kind = "truncated"
    \/ image.width = 0
    \/ target_width < 1
    \/ TargetHeight(target_width, image.width, image.height) < 1

\* lines 120-135
resize_image ==
    /\ pc = "resize"
    /\ IF ResizeRaises
       THEN /\ errors' = errors \cup {"resize_image"}
            /\ target_image' = None
       ELSE /\ target_image' =
                  Some([width |-> target_width,
                        height |-> TargetHeight(target_width, image.width, image.height)])
            /\ errors' = errors
    /\ trace' = Append(trace, "resize_image")
    /\ pc' = "grey"
    /\ UNCHANGED <<cfg_output_path, env, fs_dirs, out_file, image, close_calls,
                   target_width, greyscale_image, ascii_str, ascii_string, uncaught,
                   exit_status>>

\* lines 112-118; the luminance of the resampled pixels is the image's content
convert_to_greyscale ==
    /\ pc = "grey"
    /\ IF target_image.none
       THEN /\ errors' = errors \cup {"convert_to_greyscale"}
            /\ greyscale_image' = None
       ELSE /\ \E base \in RunBases, stride \in RunStrides :
                  greyscale_image' =
                      Some([width |-> target_image.val.width,
                            height |-> target_image.val.height,
                            data |-> Pixels(base, stride,
                                            target_image.val.width * target_image.val.height)])
            /\ errors' = errors
    /\ trace' = Append(trace, "convert_to_greyscale")
    /\ pc' = "map"
    /\ UNCHANGED <<cfg_output_path, env, fs_dirs, out_file, image, close_calls,
                   target_width, target_image, ascii_str, ascii_string, uncaught,
                   exit_status>>

\* lines 94-110
convert_pixel_to_ascii ==
    /\ pc = "map"
    /\ ascii_str' = IF greyscale_image.none THEN None
                    ELSE PixelsToAscii(greyscale_image.val.data)
    /\ errors' = IF ascii_str'.none THEN errors \cup {"convert_pixel_to_ascii"} ELSE errors
    /\ trace' = Append(trace, "convert_pixel_to_ascii")
    /\ pc' = "layout"
    /\ UNCHANGED <<cfg_output_path, env, fs_dirs, out_file, image, close_calls,
                   target_width, target_image, greyscale_image, ascii_string, uncaught,
                   exit_status>>

\* a plausible slip: a None string is laid out as the empty text
convert_tolerant ==
    /\ pc = "layout"
    /\ ascii_string' = IF ascii_str.none THEN Some(<<>>)
                       ELSE Some(Reflow(ascii_str.val, greyscale_image.val.width))
    /\ pc' = "write"
    /\ trace' = Append(trace, "convert")
    /\ UNCHANGED <<cfg_output_path, env, fs_dirs, out_file, image, close_calls,
                   target_width, target_image, greyscale_image, ascii_str, errors,
                   uncaught, exit_status>>

\* lines 75-81, the rest of convert after its three stages: len(None) raises
\* TypeError, which nothing in convert or __main__ catches, so the with
\* block is left through __exit__
convert ==
    /\ pc = "layout"
    /\ IF ascii_str.none
       THEN /\ uncaught' = "TypeError"
            /\ pc' = "exit"
            /\ UNCHANGED ascii_string
       ELSE /\ ascii_string' = Some(Reflow(ascii_str.val, greyscale_image.val.width))
            /\ pc' = "write"
            /\ UNCHANGED uncaught
    /\ trace' = Append(trace, "convert")
    /\ UNCHANGED <<cfg_output_path, env, fs_dirs, out_file, image, close_calls,
                   target_width, target_image, greyscale_image, ascii_str, errors,
                   exit_status>>

\* what is left in the file when the device fills up during the write
PartialContents(text) ==
    {<<>>} \cup (IF Len(text) > 0 THEN {SubSeq(text, 1, Len(text) - 1)} ELSE {})

\* a plausible slip: the OSError of the write is not caught
write_ascii_to_file_raising ==
    /\ pc = "write"
    /\ IF Resolve(cfg_output_path) \notin fs_dirs \/ env.write_fault = "denied"
       THEN /\ uncaught' = "OSError"
            /\ UNCHANGED out_file
       ELSE IF env.write_fault = "full"
       THEN /\ uncaught' = "OSError"
            /\ \E c \in PartialContents(ascii_string.val) :
                  out_file' = [exists |-> TRUE, content |-> c]
       ELSE /\ out_file' = [exists |-> TRUE, content |-> ascii_string.val]
            /\ UNCHANGED uncaught
    /\ trace' = Append(trace, "write_ascii_to_file")
    /\ pc' = "exit"
    /\ UNCHANGED <<cfg_output_path, env, fs_dirs, image, close_calls, target_width,
                   target_image, greyscale_image, ascii_str, ascii_string, errors,
                   exit_status>>

\* lines 84-92: open(os.path.join(cfg.output_path, file_name), 'w') needs the
\* directory and the permission; 'w' truncates an existing file; every
\* OSError (IOError) is caught and logged
write_ascii_to_file ==
    /\ pc = "write"
    /\ IF Resolve(cfg_output_path) \notin fs_dirs \/ env.write_fault = "denied"
       THEN /\ errors' = errors \cup {"write_ascii_to_file"}
            /\ UNCHANGED out_file
       ELSE IF env.write_fault = "full"
       THEN /\ errors' = errors \cup {"write_ascii_to_file"}
            /\ \E c \in PartialContents(ascii_string.val) :
                  out_file' = [exists |-> TRUE, content |-> c]
       ELSE /\ out_file' = [exists |-> TRUE, content |-> ascii_string.val]
            /\ UNCHANGED errors
    /\ trace' = Append(trace, "write_ascii_to_file")
    /\ pc' = "exit"
    /\ UNCHANGED <<cfg_output_path, env, fs_dirs, image, close_calls, target_width,
                   target_image, greyscale_image, ascii_str, ascii_string, uncaught,
                   exit_status>>

\* a plausible slip: the handle is closed only when the block ended normally
ctx_exit_leaking ==
    /\ pc = "exit"
    /\ IF image.state = "open" /\ uncaught = "none"
       THEN /\ image' = [image EXCEPT !.state = "closed"]
            /\ close_calls' = close_calls + 1
       ELSE UNCHANGED <<image, close_calls>>
    /\ exit_status' = IF uncaught = "none" THEN 0 ELSE 1
    /\ trace' = Append(trace, "__exit__")
    /\ pc' = "done"
    /\ UNCHANGED <<cfg_output_path, env, fs_dirs, out_file, target_width, target_image,
                   greyscale_image, ascii_str, ascii_string, errors, uncaught>>

\* lines 59-66, and the end of the process: __exit__ returns None, so an
\* exception of the block goes on to end the process with status 1
ctx_exit ==
    /\ pc = "exit"
    /\ IF image.state = "open"
       THEN /\ image' = [image EXCEPT !.state = "closed"]
            /\ close_calls' = close_calls + 1
       ELSE UNCHANGED <<image, close_calls>>
    /\ exit_status' = IF uncaught = "none" THEN 0 ELSE 1
    /\ trace' = Append(trace, "__exit__")
    /\ pc' = "done"
    /\ UNCHANGED <<cfg_output_path, env, fs_dirs, out_file, target_width, target_image,
                   greyscale_image, ascii_str, ascii_string, errors, uncaught>>

\* lines 159-166
Next ==
    \/ create_output_directory
    \/ load_image
    \/ resize_image
    \/ convert_to_greyscale
    \/ convert_pixel_to_ascii
    \/ convert
    \/ write_ascii_to_file
    \/ ctx_exit

Spec == Init /\ [][Next]_vars

(***************************************************************************)
(* The stages on their own                                                 *)
(***************************************************************************)
\* the state of a run that has reached a stage, apart from the stage's input
StageState(position, entered) ==
    /\ cfg_output_path = <<"o">>
    /\ fs_dirs = {<<>>, <<"o">>}
    /\ out_file = NoFile
    /\ close_calls = 0
    /\ ascii_string = None
    /\ errors = {}
    /\ uncaught = "none"
    /\ exit_status = -1
    /\ trace = entered
    /\ pc = position

\* original sizes beyond the small ones: the 200x100 image of the spec's scenario
ExampleSizes == {<<200, 100>>, <<240, 7>>}

\* resize_image on every small original size, for both target widths of the source
InitResize ==
    /\ \E size \in ((1..MaxDim) \X (1..MaxDim)) \cup ExampleSizes :
          /\ env = [image_kind |-> "valid", width |-> size[1], height |-> size[2],
                    mkdir_ok |-> TRUE, write_fault |-> "none"]
          /\ image = [state |-> "open", width |-> size[1], height |-> size[2]]
    /\ target_width \in {DefaultTargetWidth, MainTargetWidth}
    /\ target_image = None
    /\ greyscale_image = None
    /\ ascii_str = None
    /\ StageState("resize", <<"create_output_directory", "load_image">>)

NextResize == resize_image

SpecResize == InitResize /\ [][NextResize]_vars

\* convert from the greyscale image on: every intensity, small sizes
InitConvert ==
    /\ \E w \in 1..MaxGreyWidth, h \in 0..MaxGreyHeight,
          base \in 0..(PixelLevels - 1), stride \in PixelStrides :
          /\ target_image = Some([width |-> w, height |-> h])
          /\ greyscale_image = Some([width |-> w, height |-> h,
                                     data |-> Pixels(base, stride, w * h)])
          /\ target_width = w
    /\ env = [image_kind |-> "valid", width |-> 1, height |-> 1,
              mkdir_ok |-> TRUE, write_fault |-> "none"]
    /\ image = [state |-> "open", width |-> 1, height |-> 1]
    /\ ascii_str = None
    /\ StageState("map", <<"create_output_directory", "load_image", "resize_image",
                           "convert_to_greyscale">>)

NextConvert ==
    \/ convert_pixel_to_ascii
    \/ convert

SpecConvert == InitConvert /\ [][NextConvert]_vars

RECURSIVE StringsUpTo(_)
\* the strings over the ramp of length at most n
StringsUpTo(n) ==
    IF n = 0 THEN {<<>>}
    ELSE LET shorter == StringsUpTo(n - 1)
         IN  shorter \cup {Append(t, ASCII_CHARS[c]) : t \in shorter, c \in DOMAIN ASCII_CHARS}

\* the layout loop on every short flat string and row width; the loop reads
\* nothing of the greyscale image but its width
InitLayout ==
    /\ \E s \in StringsUpTo(MaxStrLen), w \in 1..MaxRowWidth :
          /\ ascii_str = Some(s)
          /\ greyscale_image = Some([width |-> w, height |-> 0, data |-> <<>>])
          /\ target_image = Some([width |-> w, height |-> 0])
          /\ target_width = w
    /\ env = [image_kind |-> "valid", width |-> 1, height |-> 1,
              mkdir_ok |-> TRUE, write_fault |-> "none"]
    /\ image = [state |-> "open", width |-> 1, height |-> 1]
    /\ StageState("layout", <<"create_output_directory", "load_image", "resize_image",
                              "convert_to_greyscale", "convert_pixel_to_ascii">>)

NextLayout == convert

SpecLayout == InitLayout /\ [][NextLayout]_vars

(***************************************************************************)
(* Properties                                                              *)
(***************************************************************************)
ResizeDone == pc = "grey" /\ trace[Len(trace)] = "resize_image"

\* C1 as stated: the image resize_image returns has width T and height
\* int(T*H/W) - int(int(T*H/W) * 0.3), the quotient truncated before the 30%
\* is taken.
C1_TruncatedBeforeReduction ==
    ResizeDone /\ image.width >= 1 /\ image.height >= 1 /\ ~target_image.none =>
        /\ target_image.val.width = target_width
        /\ LET t == (target_width * image.height) \div image.width
           IN  target_image.val.height = t - (3 * t) \div 10

\* C1 amended: whenever resize_image returns an image, its width is T and its
\* height is int(x) - int(x * 0.3) for the untruncated double x = T*H/W; that
\* is floor(T*H/W) - floor(3*T*H/(10*W)) unless 3*T*H/(10*W) is a whole number,
\* where the double product may fall just below it and the height is one more.
C1_ReductionFromUntruncated ==
    ResizeDone /\ ~target_image.none =>
        LET num == target_width * image.height
            exact == num \div image.width - (3 * num) \div (10 * image.width)
        IN  /\ target_image.val.width = target_width
            /\ target_image.val.height =
                   num \div image.width - IntTimesPoint3(num, image.width)
            /\ target_image.val.height \in {exact, exact + 1}
            /\ (3 * num) % (10 * image.width) # 0 => target_image.val.height = exact

\* a 9x1 image at target width 120: x = 13.33, 30% of it is 4, the height is 9
\* (truncating first would give 13 - 3 = 10)
C1_Witness ==
    /\ ResizeDone
    /\ target_width = MainTargetWidth /\ image.width = 9 /\ image.height = 1
    /\ ~target_image.none
    /\ target_image.val.height = 9

\* the character of each bucket of 25 intensities, written out
ExpectedChar(p) ==
    CASE p <= 24 -> "@"
      [] p >= 25 /\ p <= 49 -> "#"
      [] p >= 50 /\ p <= 74 -> "$"
      [] p >= 75 /\ p <= 99 -> "%"
      [] p >= 100 /\ p <= 124 -> "?"
      [] p >= 125 /\ p <= 149 -> "*"
      [] p >= 150 /\ p <= 174 -> "+"
      [] p >= 175 /\ p <= 199 -> ";"
      [] p >= 200 /\ p <= 224 -> ":"
      [] p >= 225 /\ p <= 249 -> ","
      [] OTHER -> "."

RampChars == {ASCII_CHARS[i] : i \in DOMAIN ASCII_CHARS}

\* C2: for every intensity 0..255 convert_pixel_to_ascii emits the ramp
\* character of bucket p div 25, the index stays within 0..10, every emitted
\* character is a ramp character; 0 gives '@', 125 '*', 255 '.'.
C2_RampLookup ==
    pc \in {"layout", "write"} =>
        /\ ~ascii_str.none
        /\ Len(ascii_str.val) = Len(greyscale_image.val.data)
        /\ \A k \in DOMAIN greyscale_image.val.data :
              LET p == greyscale_image.val.data[k]
              IN  /\ p \div 25 \in 0..10
                  /\ ascii_str.val[k] = ExpectedChar(p)
                  /\ ascii_str.val[k] \in RampChars
                  /\ p = 0 => ascii_str.val[k] = "@"
                  /\ p = 125 => ascii_str.val[k] = "*"
                  /\ p = 255 => ascii_str.val[k] = "."

C2_Witness ==
    /\ pc = "layout"
    /\ ~ascii_str.none
    /\ Len(ascii_str.val) >= 2
    /\ greyscale_image.val.data[1] = 125 /\ ascii_str.val[1] = "*"
    /\ greyscale_image.val.data[2] = 255 /\ ascii_str.val[2] = "."

\* C3: for a greyscale image of width w >= 1 and height h >= 0 the text convert
\* returns is h lines of exactly w ramp characters and a newline each, in
\* row-major pixel order; its non-newline characters number w*h, the length
\* of the flat string.
C3_GridOfLines ==
    pc = "write" /\ ~greyscale_image.none =>
        LET w == greyscale_image.val.width
            h == greyscale_image.val.height
            text == ascii_string.val
        IN  /\ ~ascii_string.none
            /\ Len(ascii_str.val) = w * h
            /\ Len(text) = h * (w + 1)
            /\ \A r \in 1..h :
                  /\ text[r * (w + 1)] = "\n"
                  /\ \A c \in 1..w :
                        /\ text[(r - 1) * (w + 1) + c] \in RampChars
                        /\ text[(r - 1) * (w + 1) + c] =
                               ExpectedChar(greyscale_image.val.data[(r - 1) * w + c])
            /\ Cardinality({i \in DOMAIN text : text[i] # "\n"}) = w * h

C3_Witness ==
    /\ pc = "write"
    /\ greyscale_image.val.width = 3 /\ greyscale_image.val.height = 2
    /\ Len(ascii_string.val) = 8
    /\ ascii_string.val[4] = "\n" /\ ascii_string.val[8] = "\n"
    /\ ascii_string.val[1] # ascii_string.val[5]

IsNotNewline(c) == c # "\n"

\* C4: reflowing any flat string into rows of w >= 1 characters, each followed
\* by a newline, and then removing the newlines gives the string back.
C4_LayoutRoundTrip ==
    pc = "write" => /\ ~ascii_string.none
                    /\ SelectSeq(ascii_string.val, IsNotNewline) = ascii_str.val

\* a string longer than a row and not a whole number of rows
C4_Witness ==
    /\ pc = "write"
    /\ Len(ascii_str.val) > greyscale_image.val.width
    /\ Len(ascii_str.val) % greyscale_image.val.width # 0
    /\ ascii_str.val[1] # ascii_str.val[Len(ascii_str.val)]

\* C5: an output directory that does not exist at the start exists, with its
\* ancestors, once create_output_directory has run, so the write succeeds
\* (the creation itself being permitted).
C5_DirectoryCreatedBeforeWrite ==
    /\ pc # "start" /\ env.mkdir_ok => Resolve(cfg_output_path) \in fs_dirs
    /\ (\E i \in DOMAIN trace : trace[i] = "write_ascii_to_file")
           /\ env.mkdir_ok /\ env.write_fault = "none" =>
          out_file = [exists |-> TRUE, content |-> ascii_string.val]

\* C6: with a missing input file the process ends in load_image with status
\* 1, no later stage runs, and the output file is never created or modified.
C6_MissingInputEndsRun ==
    /\ [](env.image_kind = "missing" /\ pc \notin {"start", "load"} =>
             /\ pc = "done"
             /\ exit_status = 1
             /\ trace = <<"create_output_directory", "load_image">>
             /\ target_image.none /\ greyscale_image.none
             /\ ascii_str.none /\ ascii_string.none)
    /\ [][env.image_kind = "missing" => out_file' = out_file]_vars

C6_Witness ==
    /\ env.image_kind = "missing"
    /\ pc = "done"
    /\ exit_status = 1
    /\ out_file = StaleFile

\* C7: however the input path fails to give a decodable image, the loader
\* logs the failure itself before the process ends with a non-zero status.
C7_EveryLoadFailureLogged ==
    pc = "done" /\ ~Opens(env.image_kind) =>
        /\ "load_image" \in errors
        /\ exit_status # 0

StageFailed ==
    \/ "resize_image" \in errors
    \/ "convert_to_greyscale" \in errors
    \/ "convert_pixel_to_ascii" \in errors

\* C8 as stated: status 1 only when the image cannot be opened; after any
\* other failure the following stages run and the run ends with status 0.
C8_StatusOneOnlyOnLoadFailure ==
    pc = "done" =>
        /\ exit_status = 1 => ~Opens(env.image_kind)
        /\ Opens(env.image_kind) =>
              /\ exit_status = 0
              /\ \E i \in DOMAIN trace : trace[i] = "write_ascii_to_file"

\* C8 amended: the exit status is 1 when the image cannot be opened and also
\* when resize, greyscale conversion or pixel mapping fails: such a failure
\* is caught and logged, the stage returns None, the stages up to pixel
\* mapping still run and fail in turn, then the layout loop of convert raises
\* an uncaught TypeError, nothing is written and the run ends with status 1.
\* A failure to create the output directory or to write the file is caught
\* and logged, execution goes on and the run ends with status 0.
C8_StageFailureEndsWithStatusOne ==
    pc = "done" =>
        /\ exit_status \in {0, 1}
        /\ exit_status = 1 <=> (~Opens(env.image_kind) \/ StageFailed)
        /\ Opens(env.image_kind) /\ StageFailed =>
              /\ {"convert_to_greyscale", "convert_pixel_to_ascii"} \subseteq errors
              /\ greyscale_image.none /\ ascii_str.none /\ ascii_string.none
              /\ trace = <<"create_output_directory", "load_image", "resize_image",
                           "convert_to_greyscale", "convert_pixel_to_ascii", "convert",
                           "__exit__">>
              /\ uncaught = "TypeError"
        /\ Opens(env.image_kind) /\ ~StageFailed =>
              /\ trace = <<"create_output_directory", "load_image", "resize_image",
                           "convert_to_greyscale", "convert_pixel_to_ascii", "convert",
                           "write_ascii_to_file", "__exit__">>
              /\ uncaught = "none"
              /\ exit_status = 0

\* a resize that failed on an image that opened, and a run that ended with 1
C8_Witness ==
    /\ pc = "done"
    /\ Opens(env.image_kind)
    /\ "resize_image" \in errors
    /\ exit_status = 1

WriteAttempted == \E i \in DOMAIN trace : trace[i] = "write_ascii_to_file"

WriteFaulted ==
    WriteAttempted /\ (Resolve(cfg_output_path) \notin fs_dirs \/ env.write_fault # "none")

\* C9: when the write hits an I/O failure (missing directory, permission
\* denied, device full), write_ascii_to_file logs it and does not raise, the
\* image is closed afterwards and the exit status is 0 although no complete
\* output file was written.
C9_WriteFailureSwallowed ==
    WriteFaulted =>
        /\ "write_ascii_to_file" \in errors
        /\ uncaught = "none"
        /\ out_file.exists => out_file.content # ascii_string.val
        /\ pc \in {"exit", "done"}
        /\ pc = "done" =>
              /\ trace[Len(trace)] = "__exit__"
              /\ image.state = "closed"
              /\ close_calls = 1
              /\ exit_status = 0

C9_Witness ==
    /\ pc = "done"
    /\ env.write_fault = "full"
    /\ Resolve(cfg_output_path) \in fs_dirs
    /\ "write_ascii_to_file" \in errors
    /\ out_file.exists
    /\ exit_status = 0

\* C10: on every path of a run that opened the image (normal end, failed
\* write, exception out of convert) __exit__ closes the handle exactly once
\* before the process ends, never before resize_image has run; a run whose
\* load failed holds no handle.
C10_HandleClosedOnce ==
    /\ close_calls <= 1
    /\ image.state = "closed" <=> close_calls = 1
    /\ close_calls = 1 =>
          /\ pc = "done"
          /\ trace[Len(trace)] = "__exit__"
          /\ \E i \in DOMAIN trace : trace[i] = "resize_image"
    /\ pc = "done" /\ Opens(env.image_kind) => close_calls = 1 /\ image.state = "closed"
    /\ pc = "done" /\ ~Opens(env.image_kind) => close_calls = 0 /\ image.state = "none"

\* the handle closed on the way out of a convert that raised
C10_Witness ==
    /\ pc = "done"
    /\ uncaught = "TypeError"
    /\ image.state = "closed"
    /\ close_calls = 1

====
